---- MODULE Spec2Model ----
(***************************************************************************)
(* Model of the BIN lookup bot (src/bot.py, src/config.py).                *)
(*                                                                         *)
(* A Python str is a sequence of one-character strings.  A literal of the  *)
(* source that is never inspected character by character (a label, a       *)
(* message of config.MESSAGES) is kept as one element of that sequence.    *)
(***************************************************************************)
EXTENDS Integers, Sequences, FiniteSets, TLC

VARIABLES
    pc,          \* position of the handler that is running ("idle" between updates)
    kind,        \* which handler the update went to: "message" | "inline" | "validate" | "format" | "none"
    raw,         \* update.message.text / update.inline_query.query / the argument of validate_bin
    text,        \* handle_message: text, inline_query: q (after strip)
    valid,       \* result of validate_bin for this update
    http,        \* outcome of client.get for this update
    bin_data,    \* value returned by fetch_bin_info / argument of format_bin_info
    response,    \* value returned by format_bin_info
    raised,      \* TRUE when an exception escaped fetch_bin_info
    gets,        \* number of HTTP GETs issued for this update
    fetches,     \* number of calls of fetch_bin_info for this update
    replies,     \* texts passed to update.message.reply_text for this update
    answers      \* texts passed to update.inline_query.answer for this update

vars == <<pc, kind, raw, text, valid, http, bin_data, response, raised,
          gets, fetches, replies, answers>>

(***************************************************************************)
(* Bounds                                                                  *)
(***************************************************************************)
MaxLen == 7        \* longest string handed to validate_bin

(***************************************************************************)
(* Characters and strings                                                  *)
(***************************************************************************)
NL == "\n"

\* ASCII decimal digits
AsciiDigits == {"4", "6"}

\* decimal digits outside ASCII (category Nd), e.g. ARABIC-INDIC DIGIT THREE
NonAsciiDigits == {"ar3"}

\* what str.strip() removes
Whitespace == {" "}

Letters == {"a"}

\* the characters the arguments of validate_bin are drawn from
Chars == {"4"} \cup NonAsciiDigits \cup Whitespace \cup Letters

\* Python None as an argument of type str | None
NoneStr == <<"None">>

RECURSIVE StringsOfLen(_)
StringsOfLen(n) ==
    IF n = 0 THEN {<<>>}
    ELSE {Append(s, c) : s \in StringsOfLen(n - 1), c \in Chars}

Strings == UNION {StringsOfLen(n) : n \in 0..MaxLen}

\* x or ""
OrEmpty(x) == IF x = NoneStr THEN <<>> ELSE x

RECURSIVE lstrip(_)
lstrip(s) ==
    IF s # <<>> /\ Head(s) \in Whitespace THEN lstrip(Tail(s)) ELSE s

RECURSIVE rstrip(_)
rstrip(s) ==
    IF s # <<>> /\ s[Len(s)] \in Whitespace
    THEN rstrip(SubSeq(s, 1, Len(s) - 1)) ELSE s

strip(s) == rstrip(lstrip(s))

(***************************************************************************)
(* validate_bin                                                            *)
(***************************************************************************)
BinLen == 6

\* the class \d of a str pattern compiled without re.ASCII
MatchesBackslashD(c) == c \in AsciiDigits \cup NonAsciiDigits

\* re.fullmatch(r"\d{6}", s) is not None
fullmatch_d6(s) ==
    /\ Len(s) = BinLen
    /\ \A i \in 1..Len(s) : MatchesBackslashD(s[i])

validate_bin(bin_number) == fullmatch_d6(OrEmpty(bin_number))

\* the language the validator is specified to accept: exactly 6 ASCII digits
IsSixAsciiDigits(x) ==
    /\ x # NoneStr
    /\ Len(x) = BinLen
    /\ \A i \in 1..Len(x) : x[i] \in AsciiDigits

(***************************************************************************)
(* Python values: None, str, bool, dict.  A dict is the sequence of its    *)
(* <<key, value>> items in insertion order, keys pairwise distinct.        *)
(***************************************************************************)
None == [t |-> "none", s |-> <<>>, b |-> FALSE, d |-> <<>>]

Str(x) == [t |-> "str", s |-> x, b |-> FALSE, d |-> <<>>]

Bool(x) == [t |-> "bool", s |-> <<>>, b |-> x, d |-> <<>>]

Dict(items) == [t |-> "dict", s |-> <<>>, b |-> FALSE, d |-> items]

\* bool(v)
Truthy(v) ==
    CASE v.t = "none" -> FALSE
      [] v.t = "str"  -> v.s # <<>>
      [] v.t = "bool" -> v.b
      [] v.t = "dict" -> v.d # <<>>

\* key in v
HasKey(v, k) == \E i \in 1..Len(v.d) : v.d[i][1] = k

\* v[k] for a key that is present
Item(v, k) == v.d[CHOOSE i \in 1..Len(v.d) : v.d[i][1] = k][2]

\* v.get(k)
Get(v, k) == IF HasKey(v, k) THEN Item(v, k) ELSE None

\* x or {}
OrEmptyDict(v) == IF Truthy(v) THEN v ELSE Dict(<<>>)

\* str(v)
ToStr(v) ==
    CASE v.t = "none" -> <<"None">>
      [] v.t = "str"  -> v.s
      [] v.t = "bool" -> IF v.b THEN <<"True">> ELSE <<"False">>
      [] v.t = "dict" -> <<"{", "}">>

UpperChar(c) ==
    CASE c = "v" -> "V"
      [] c = "i" -> "I"
      [] OTHER   -> c

LowerChar(c) ==
    CASE c = "V" -> "v"
      [] c = "I" -> "i"
      [] OTHER   -> c

\* str.upper()
upper(s) == [i \in 1..Len(s) |-> UpperChar(s[i])]

\* str.capitalize(): first character upper-cased, the rest lower-cased
capitalize(s) ==
    [i \in 1..Len(s) |-> IF i = 1 THEN UpperChar(s[i]) ELSE LowerChar(s[i])]

\* sep.join(parts)
RECURSIVE join(_, _)
join(sep, parts) ==
    IF parts = <<>> THEN <<>>
    ELSE IF Len(parts) = 1 THEN parts[1]
    ELSE parts[1] \o sep \o join(sep, Tail(parts))

(***************************************************************************)
(* config.MESSAGES (emoji left out, the backquote written as a quote)     *)
(***************************************************************************)
MESSAGES_invalid_bin ==
    <<"Invalid BIN format. Please send 6 digits.", NL, NL, "Example: '464235'">>

MESSAGES_no_data == <<"No information found for this BIN.">>

(***************************************************************************)
(* format_bin_info                                                         *)
(***************************************************************************)
HeaderLine(bin_number) == <<"*BIN:* '">> \o bin_number \o <<"'">>

BlankLine == <<>>

NoteLine == <<"*Note:* This shows card type only, not card validity.">>

HelpLine == <<"Use '/help' for more information.">>

BrandLabel == "*Brand:* "
TypeLabel == "*Type:* "
BankLabel == "*Bank:* "
WebsiteLabel == "*Website:* "
PhoneLabel == "*Phone:* "
CountryLabel == "*Country:* "
LevelLabel == "*Level:* "
PrepaidLabel == "*Prepaid:* "

\* lines 68-69
SchemeLines(data) ==
    IF Truthy(Get(data, "scheme"))
    THEN << <<BrandLabel>> \o upper(ToStr(Item(data, "scheme"))) >>
    ELSE <<>>

\* lines 71-72
TypeLines(data) ==
    IF Truthy(Get(data, "type"))
    THEN << <<TypeLabel>> \o capitalize(ToStr(Item(data, "type"))) >>
    ELSE <<>>

\* the website and phone lines nested under the test of the bank name
BankLines_nested(data) ==
    IF Truthy(Get(data, "bank"))
    THEN LET bank == OrEmptyDict(Item(data, "bank"))
         IN  IF Truthy(Get(bank, "name"))
             THEN << <<BankLabel>> \o ToStr(Item(bank, "name")) >>
                  \o
                  (IF Truthy(Get(bank, "url"))
                   THEN << <<WebsiteLabel>> \o ToStr(Item(bank, "url")) >> ELSE <<>>)
                  \o
                  (IF Truthy(Get(bank, "phone"))
                   THEN << <<PhoneLabel>> \o ToStr(Item(bank, "phone")) >> ELSE <<>>)
             ELSE <<>>
    ELSE <<>>

\* lines 74-81
BankLines(data) ==
    IF Truthy(Get(data, "bank"))
    THEN LET bank == OrEmptyDict(Item(data, "bank"))
         IN  (IF Truthy(Get(bank, "name"))
              THEN << <<BankLabel>> \o ToStr(Item(bank, "name")) >> ELSE <<>>)
             \o
             (IF Truthy(Get(bank, "url"))
              THEN << <<WebsiteLabel>> \o ToStr(Item(bank, "url")) >> ELSE <<>>)
             \o
             (IF Truthy(Get(bank, "phone"))
              THEN << <<PhoneLabel>> \o ToStr(Item(bank, "phone")) >> ELSE <<>>)
    ELSE <<>>

\* lines 85-91
CountryInfo(country) ==
    (IF Truthy(Get(country, "name"))
     THEN <<ToStr(Item(country, "name"))>> ELSE <<>>)
    \o
    (IF Truthy(Get(country, "emoji"))
     THEN <<ToStr(Item(country, "emoji"))>> ELSE <<>>)
    \o
    (IF Truthy(Get(country, "currency"))
     THEN << <<"(">> \o ToStr(Item(country, "currency")) \o <<")">> >> ELSE <<>>)

\* lines 83-93
CountryLines(data) ==
    IF Truthy(Get(data, "country"))
    THEN LET country_info == CountryInfo(OrEmptyDict(Item(data, "country")))
         IN  IF country_info # <<>>
             THEN << <<CountryLabel>> \o join(<<" ">>, country_info) >>
             ELSE <<>>
    ELSE <<>>

\* lines 95-96
LevelLines(data) ==
    IF Truthy(Get(data, "brand"))
    THEN << <<LevelLabel>> \o capitalize(ToStr(Item(data, "brand"))) >>
    ELSE <<>>

\* the prepaid line gated by data.get("prepaid")
PrepaidLines_truthy(data) ==
    IF Truthy(Get(data, "prepaid"))
    THEN << <<PrepaidLabel, "Yes">> >>
    ELSE <<>>

\* lines 98-99
PrepaidLines(data) ==
    IF HasKey(data, "prepaid") /\ Item(data, "prepaid") # None
    THEN << <<PrepaidLabel>>
            \o (IF Truthy(Item(data, "prepaid")) THEN <<"Yes">> ELSE <<"No">>) >>
    ELSE <<>>

\* the lines of one key of the record
KeyLines(data, k) ==
    CASE k = "scheme"  -> SchemeLines(data)
      [] k = "type"    -> TypeLines(data)
      [] k = "bank"    -> BankLines(data)
      [] k = "country" -> CountryLines(data)
      [] k = "brand"   -> LevelLines(data)
      [] k = "prepaid" -> PrepaidLines(data)
      [] OTHER         -> <<>>

RECURSIVE ItemsLines(_, _)
ItemsLines(data, i) ==
    IF i > Len(data.d) THEN <<>>
    ELSE KeyLines(data, data.d[i][1]) \o ItemsLines(data, i + 1)

\* the optional lines emitted in a loop over data.items()
ReportLines_keyorder(data, bin_number) ==
    <<HeaderLine(bin_number), BlankLine>>
    \o ItemsLines(data, 1)
    \o <<BlankLine, NoteLine, HelpLine>>

\* the list lines, as joined at line 105
ReportLines(data, bin_number) ==
    <<HeaderLine(bin_number), BlankLine>>
    \o SchemeLines(data)
    \o TypeLines(data)
    \o BankLines(data)
    \o CountryLines(data)
    \o LevelLines(data)
    \o PrepaidLines(data)
    \o <<BlankLine, NoteLine, HelpLine>>

\* the guard of line 61 written `if bin_data is None`
format_bin_info_is_none(data, bin_number) ==
    IF data = None
    THEN MESSAGES_no_data
    ELSE join(<<NL>>, ReportLines(data, bin_number))

\* lines 59-105
format_bin_info(data, bin_number) ==
    IF ~Truthy(data)
    THEN MESSAGES_no_data
    ELSE join(<<NL>>, ReportLines(data, bin_number))

RECURSIVE SplitFrom(_, _, _)
SplitFrom(txt, i, cur) ==
    IF i > Len(txt) THEN <<cur>>
    ELSE IF txt[i] = NL THEN <<cur>> \o SplitFrom(txt, i + 1, <<>>)
    ELSE SplitFrom(txt, i + 1, Append(cur, txt[i]))

\* str.split("\n"): the lines of a text
SplitLines(txt) == SplitFrom(txt, 1, <<>>)

(***************************************************************************)
(* fetch_bin_info                                                          *)
(***************************************************************************)
\* what client.get(url) ends in: an exception, or a response with a status
\* code and a body that r.json() parses to `json` or fails on
Raises(e) == [exc |-> e, status |-> 0, parses |-> FALSE, json |-> None]

Response(code, ok, v) == [exc |-> "none", status |-> code, parses |-> ok, json |-> v]

NoResponse == Raises("unset")

SchemeOnly == Dict(<< <<"scheme", Str(<<"v", "i">>)>> >>)

Sample ==
    Dict(<< <<"scheme", Str(<<"v", "i">>)>>,
            <<"type", Str(<<"d", "V">>)>>,
            <<"prepaid", Bool(FALSE)>>,
            <<"country", Dict(<< <<"name", Str(<<"U">>)>>,
                                 <<"currency", Str(<<"D">>)>> >>)>>,
            <<"bank", Dict(<< <<"name", Str(<<"S">>)>> >>)>> >>)

JsonBodies == {None, Dict(<<>>), SchemeOnly, Sample}

Statuses == {200, 404, 500}

HttpOutcomes ==
    {Raises(e) : e \in {"httpx.ConnectError", "httpx.ReadTimeout"}}
    \cup {Response(c, TRUE, v) : c \in Statuses, v \in JsonBodies}
    \cup {Response(c, FALSE, None) : c \in Statuses}

\* the exceptions the clause `except Exception` catches
CaughtByExceptException(e) ==
    e \in {"httpx.ConnectError", "httpx.ReadTimeout", "json.JSONDecodeError"}

\* lines 44-53, the body of the try
TryBody(h) ==
    IF h.exc # "none" THEN [raised |-> h.exc, value |-> None]
    ELSE IF h.status = 200
         THEN IF h.parses THEN [raised |-> "none", value |-> h.json]
              ELSE [raised |-> "json.JSONDecodeError", value |-> None]
    ELSE [raised |-> "none", value |-> None]

\* the try narrowed to httpx's own errors
fetch_result_httpx_only(h) ==
    LET o == TryBody(h)
    IN  IF o.raised \in {"httpx.ConnectError", "httpx.ReadTimeout"}
        THEN [raised |-> "none", value |-> None]
        ELSE o

\* a status other than 200 and 404 raised instead of returned
fetch_result_raise_for_status(h) ==
    LET o == TryBody(h)
    IN  IF h.exc = "none" /\ h.status \notin {200, 404}
        THEN [raised |-> "httpx.HTTPStatusError", value |-> None]
        ELSE IF o.raised # "none" /\ CaughtByExceptException(o.raised)
        THEN [raised |-> "none", value |-> None]
        ELSE o

\* lines 43-56: what the call of fetch_bin_info ends in
fetch_result(h) ==
    LET o == TryBody(h)
    IN  IF o.raised # "none" /\ CaughtByExceptException(o.raised)
        THEN [raised |-> "none", value |-> None]
        ELSE o

(***************************************************************************)
(* The updates the bot is sent                                             *)
(***************************************************************************)
Bin == <<"4", "6", "4", "6", "4", "4">>

Texts ==
    { NoneStr,
      <<>>,
      <<"4", "4", "4", "4", "4">>,
      Bin,
      <<" ">> \o Bin \o <<" ">>,
      <<"4", "6", "a", "6", "4", "4">>,
      <<"ar3", "ar3", "ar3", "ar3", "ar3", "ar3">>,
      Bin \o <<"4">> }

Fresh(k, t, p) ==
    /\ kind' = k
    /\ raw' = t
    /\ pc' = p
    /\ text' = <<>>
    /\ valid' = FALSE
    /\ http' = NoResponse
    /\ bin_data' = None
    /\ response' = <<>>
    /\ raised' = "none"
    /\ gets' = 0
    /\ fetches' = 0
    /\ replies' = <<>>
    /\ answers' = <<>>

Init ==
    /\ pc = "idle"
    /\ kind = "none"
    /\ raw = NoneStr
    /\ text = <<>>
    /\ valid = FALSE
    /\ http = NoResponse
    /\ bin_data = None
    /\ response = <<>>
    /\ raised = "none"
    /\ gets = 0
    /\ fetches = 0
    /\ replies = <<>>
    /\ answers = <<>>

\* Application.process_update hands the next update to its handler; updates
\* are processed one after the other
Receive ==
    /\ pc \in {"idle", "done", "crashed"}
    /\ \E k \in {"message", "inline"}, t \in Texts : Fresh(k, t, "start")

\* handle_message with the validation left out
HM_Validate_unchecked ==
    /\ kind = "message"
    /\ pc = "start"
    /\ text' = strip(OrEmpty(raw))
    /\ valid' = validate_bin(strip(OrEmpty(raw)))
    /\ pc' = "typing"
    /\ UNCHANGED <<kind, raw, http, bin_data, response, raised, gets, fetches,
                   replies, answers>>

\* handle_message, lines 138-142
HM_Validate ==
    /\ kind = "message"
    /\ pc = "start"
    /\ text' = strip(OrEmpty(raw))
    /\ valid' = validate_bin(strip(OrEmpty(raw)))
    /\ IF ~validate_bin(strip(OrEmpty(raw)))
       THEN /\ replies' = Append(replies, MESSAGES_invalid_bin)
            /\ pc' = "done"
       ELSE /\ replies' = replies
            /\ pc' = "typing"
    /\ UNCHANGED <<kind, raw, http, bin_data, response, raised, gets, fetches, answers>>

\* handle_message, line 144
HM_SendAction ==
    /\ kind = "message"
    /\ pc = "typing"
    /\ pc' = "call"
    /\ UNCHANGED <<kind, raw, text, valid, http, bin_data, response, raised, gets,
                   fetches, replies, answers>>

\* inline_query, lines 168-171
IQ_Validate ==
    /\ kind = "inline"
    /\ pc = "start"
    /\ text' = strip(OrEmpty(raw))
    /\ valid' = validate_bin(strip(OrEmpty(raw)))
    /\ pc' = IF ~validate_bin(strip(OrEmpty(raw))) THEN "done" ELSE "call"
    /\ UNCHANGED <<kind, raw, http, bin_data, response, raised, gets, fetches,
                   replies, answers>>

\* the call of fetch_bin_info at line 146 and at line 173
CallFetch ==
    /\ kind \in {"message", "inline"}
    /\ pc = "call"
    /\ fetches' = fetches + 1
    /\ pc' = "get"
    /\ UNCHANGED <<kind, raw, text, valid, http, bin_data, response, raised, gets,
                   replies, answers>>

\* fetch_bin_info, lines 44-45: the GET is issued and ends
Fetch_Get ==
    /\ pc = "get"
    /\ \E h \in HttpOutcomes : http' = h
    /\ gets' = gets + 1
    /\ pc' = "got"
    /\ UNCHANGED <<kind, raw, text, valid, bin_data, response, raised, fetches,
                   replies, answers>>

\* fetch_bin_info going back to the GET after an outcome without a record
Fetch_Return_retry ==
    /\ pc = "got"
    /\ IF fetch_result(http).value = None /\ gets < 2
       THEN /\ pc' = "get"
            /\ UNCHANGED <<bin_data, raised>>
       ELSE /\ bin_data' = fetch_result(http).value
            /\ raised' = fetch_result(http).raised
            /\ pc' = IF fetch_result(http).raised = "none" THEN "fetched" ELSE "crashed"
    /\ UNCHANGED <<kind, raw, text, valid, http, response, gets, fetches, replies, answers>>

\* fetch_bin_info, lines 47-56: the value returned to the handler, or the
\* exception that leaves the handler
Fetch_Return ==
    /\ pc = "got"
    /\ bin_data' = fetch_result(http).value
    /\ raised' = fetch_result(http).raised
    /\ pc' = IF fetch_result(http).raised = "none" THEN "fetched" ELSE "crashed"
    /\ UNCHANGED <<kind, raw, text, valid, http, response, gets, fetches, replies, answers>>

\* handle_message without the return at line 151
HM_Reply_fallthrough ==
    /\ kind = "message"
    /\ pc = "fetched"
    /\ response' = format_bin_info(bin_data, text)
    /\ replies' = IF bin_data = None
                  THEN replies \o <<MESSAGES_no_data, format_bin_info(bin_data, text)>>
                  ELSE Append(replies, format_bin_info(bin_data, text))
    /\ pc' = "done"
    /\ UNCHANGED <<kind, raw, text, valid, http, bin_data, raised, gets, fetches, answers>>

\* handle_message, lines 148-164
HM_Reply ==
    /\ kind = "message"
    /\ pc = "fetched"
    /\ IF bin_data = None
       THEN /\ replies' = Append(replies, MESSAGES_no_data)
            /\ response' = response
       ELSE /\ response' = format_bin_info(bin_data, text)
            /\ replies' = Append(replies, format_bin_info(bin_data, text))
    /\ pc' = "done"
    /\ UNCHANGED <<kind, raw, text, valid, http, bin_data, raised, gets, fetches, answers>>

\* inline_query, lines 174-192
IQ_Answer ==
    /\ kind = "inline"
    /\ pc = "fetched"
    /\ IF ~Truthy(bin_data)
       THEN UNCHANGED <<response, answers>>
       ELSE /\ response' = format_bin_info(bin_data, text)
            /\ answers' = Append(answers, format_bin_info(bin_data, text))
    /\ pc' = "done"
    /\ UNCHANGED <<kind, raw, text, valid, http, bin_data, raised, gets, fetches, replies>>

Next ==
    \/ Receive
    \/ HM_Validate
    \/ HM_SendAction
    \/ IQ_Validate
    \/ CallFetch
    \/ Fetch_Get
    \/ Fetch_Return
    \/ HM_Reply
    \/ IQ_Answer

Spec == Init /\ [][Next]_vars

(***************************************************************************)
(* validate_bin called on its own, on every string up to MaxLen            *)
(***************************************************************************)
InitValidate ==
    /\ pc = "start"
    /\ kind = "validate"
    /\ raw \in Strings \cup {NoneStr}
    /\ text = <<>>
    /\ valid = FALSE
    /\ http = NoResponse
    /\ bin_data = None
    /\ response = <<>>
    /\ raised = "none"
    /\ gets = 0
    /\ fetches = 0
    /\ replies = <<>>
    /\ answers = <<>>

ValidateCall ==
    /\ kind = "validate"
    /\ pc = "start"
    /\ valid' = validate_bin(raw)
    /\ pc' = "done"
    /\ UNCHANGED <<kind, raw, text, http, bin_data, response, raised, gets, fetches,
                   replies, answers>>

NextValidate == ValidateCall

SpecValidate == InitValidate /\ [][NextValidate]_vars

(***************************************************************************)
(* format_bin_info called on its own, on records of optional fields        *)
(***************************************************************************)
\* a key that the record does not have
Absent == [t |-> "absent", s |-> <<>>, b |-> FALSE, d |-> <<>>]

Reverse(seq) == [i \in 1..Len(seq) |-> seq[Len(seq) + 1 - i]]

IsPresent(item) == item[2].t # "absent"

\* the dict with the keys whose value is not Absent, in the order of `keys`
\* or in the opposite order
MkDict(keys, vals, rev) ==
    LET items == SelectSeq([i \in 1..Len(keys) |-> <<keys[i], vals[i]>>], IsPresent)
    IN  Dict(IF rev THEN Reverse(items) ELSE items)

TextValue == Str(<<"v", "I", "i">>)

EmptyText == Str(<<>>)

BankKeys == <<"name", "url", "phone">>

CountryKeys == <<"name", "emoji", "currency">>

TopKeys == <<"scheme", "type", "bank", "country", "brand", "prepaid">>

BankValues ==
    {Absent, None}
    \cup {MkDict(BankKeys, <<n, u, p>>, FALSE) :
            n \in {Absent, None, TextValue},
            u \in {Absent, TextValue},
            p \in {Absent, TextValue}}

CountryValues ==
    {Absent, None}
    \cup {MkDict(CountryKeys, <<n, e, c>>, FALSE) :
            n \in {Absent, TextValue},
            e \in {EmptyText, TextValue},
            c \in {Absent, TextValue}}

Records ==
    {MkDict(TopKeys, <<s, t, b, c, l, p>>, r) :
        s \in {Absent, EmptyText, TextValue},
        t \in {Absent, None, TextValue},
        b \in BankValues,
        c \in CountryValues,
        l \in {Absent, None, TextValue},
        p \in {Absent, None, Bool(FALSE), Bool(TRUE)},
        r \in BOOLEAN}

InitFormat ==
    /\ pc = "start"
    /\ kind = "format"
    /\ bin_data \in Records \cup {None}
    /\ text = Bin
    /\ raw = Bin
    /\ valid = TRUE
    /\ http = NoResponse
    /\ response = <<>>
    /\ raised = "none"
    /\ gets = 0
    /\ fetches = 0
    /\ replies = <<>>
    /\ answers = <<>>

FormatCall ==
    /\ kind = "format"
    /\ pc = "start"
    /\ response' = format_bin_info(bin_data, text)
    /\ pc' = "done"
    /\ UNCHANGED <<kind, raw, text, valid, http, bin_data, raised, gets, fetches,
                   replies, answers>>

NextFormat == FormatCall

SpecFormat == InitFormat /\ [][NextFormat]_vars

(***************************************************************************)
(* Properties                                                              *)
(***************************************************************************)
Finished == pc \in {"done", "crashed"}

\* the text the handler hands to validate_bin
Stripped == strip(OrEmpty(raw))

IsNotFound(h) == h.exc = "none" /\ h.status = 404

IsTransportFailure(h) ==
    \/ h.exc \notin {"none", "unset"}
    \/ h.exc = "none" /\ h.status \notin {200, 404}
    \/ h.exc = "none" /\ h.status = 200 /\ ~h.parses

IsFound(h) == h.exc = "none" /\ h.status = 200 /\ h.parses

\* positions of the lines of L that start with `label`
LinesWith(L, label) == {i \in 1..Len(L) : L[i] # <<>> /\ L[i][1] = label}

Count(L, label) == Cardinality(LinesWith(L, label))

OneIff(L, label, cond) == Count(L, label) = IF cond THEN 1 ELSE 0

FieldSet(k) == Truthy(Get(bin_data, k))

SubFieldSet(k, sub) == Truthy(Get(Get(bin_data, k), sub))

FormatDone == kind = "format" /\ pc = "done"

HeaderAndFooter(L) ==
    /\ Len(L) >= 5
    /\ L[1] = HeaderLine(text)
    /\ L[Len(L) - 1] = NoteLine
    /\ L[Len(L)] = HelpLine

\* C1: validate_bin returns true exactly for the strings of six ASCII
\* decimal digits, and false for None and for every other string.
C1_AcceptsExactlySixAsciiDigits ==
    (kind = "validate" /\ pc = "done") => (valid <=> IsSixAsciiDigits(raw))

\* C2 as stated: in both handlers an input that fails validation causes no
\* lookup and the one output delivered is the invalid-format message.
C2_InvalidInputAnsweredInBothHandlers ==
    (kind \in {"message", "inline"} /\ pc = "done" /\ ~validate_bin(Stripped))
        => /\ fetches = 0
           /\ replies \o answers = <<MESSAGES_invalid_bin>>

\* C2 as amended: fetch_bin_info is only ever called with a string that
\* passed validate_bin; when the stripped input fails validation no lookup
\* is made, handle_message replies with the invalid-format message and
\* inline_query delivers nothing.
C2_InvalidInputNeverLookedUp ==
    /\ (fetches > 0 \/ gets > 0) => (validate_bin(text) /\ text = Stripped)
    /\ (kind \in {"message", "inline"} /\ pc = "done" /\ ~validate_bin(Stripped))
          => /\ fetches = 0
             /\ gets = 0
             /\ answers = <<>>
             /\ replies = IF kind = "message" THEN <<MESSAGES_invalid_bin>> ELSE <<>>

C2_Witness ==
    /\ kind = "inline"
    /\ pc = "done"
    /\ ~validate_bin(Stripped)
    /\ fetches = 0
    /\ replies \o answers = <<>>

\* C3: fetch_bin_info never lets an exception out; it returns the parsed
\* body exactly when the status is 200 and the body parses, and None on
\* every other outcome of the GET.
C3_FetchAlwaysReturns ==
    /\ pc # "crashed"
    /\ raised = "none"
    /\ pc \in {"fetched", "done"} /\ gets > 0
          => bin_data = IF IsFound(http) THEN http.json ELSE None

C3_Witness ==
    /\ pc = "fetched"
    /\ http.exc = "none" /\ http.status = 200 /\ ~http.parses
    /\ bin_data = None
    /\ raised = "none"

\* C4 as stated: every dict, the empty one included, is formatted as a
\* report with the header first and the two footer lines last.
C4_EveryRecordGetsAReport ==
    (FormatDone /\ bin_data.t = "dict")
        => (HeaderAndFooter(SplitLines(response)) /\ response # MESSAGES_no_data)

\* C4 as amended: a non-empty record is formatted as a report with the
\* header first and the two footer lines last; the no-data message is
\* returned for None and for the empty record, and for nothing else.
C4_NonEmptyRecordGetsAReport ==
    FormatDone
        => /\ Truthy(bin_data)
                 => (HeaderAndFooter(SplitLines(response)) /\ response # MESSAGES_no_data)
           /\ ~Truthy(bin_data) => response = MESSAGES_no_data

C4_Witness ==
    /\ FormatDone
    /\ bin_data.t = "dict"
    /\ Len(bin_data.d) = 6
    /\ \A i \in 1..Len(bin_data.d) : ~Truthy(bin_data.d[i][2])
    /\ SplitLines(response) = <<HeaderLine(text), BlankLine, BlankLine, NoteLine, HelpLine>>

\* C5 as stated: the prepaid line is there exactly when the record has the
\* key `prepaid`, whatever its value.
C5_PrepaidGatedByKey ==
    (FormatDone /\ Truthy(bin_data))
        => (Count(SplitLines(response), PrepaidLabel) = 1 <=> HasKey(bin_data, "prepaid"))

\* C5 as amended: the prepaid line is there exactly when the record has
\* the key `prepaid` with a value other than None; it reads No for false
\* and Yes for true.
C5_PrepaidGatedByKeyAndNotNone ==
    (FormatDone /\ Truthy(bin_data))
        => LET L == SplitLines(response)
           IN  /\ OneIff(L, PrepaidLabel,
                         HasKey(bin_data, "prepaid") /\ Get(bin_data, "prepaid") # None)
               /\ Get(bin_data, "prepaid") = Bool(FALSE)
                     => \E i \in 1..Len(L) : L[i] = <<PrepaidLabel, "No">>
               /\ Get(bin_data, "prepaid") = Bool(TRUE)
                     => \E i \in 1..Len(L) : L[i] = <<PrepaidLabel, "Yes">>

C5_Witness ==
    /\ FormatDone
    /\ HasKey(bin_data, "prepaid")
    /\ Get(bin_data, "prepaid") = Bool(FALSE)
    /\ ~FieldSet("scheme")
    /\ \E i \in 1..Len(SplitLines(response)) :
           SplitLines(response)[i] = <<PrepaidLabel, "No">>

OnlyKey(k) == Len(bin_data.d) = 1 /\ HasKey(bin_data, k)

\* C6: for a non-empty record each optional line is there exactly when its
\* own field is set, the country line exactly when one of name, emoji and
\* currency is set; a record with only a scheme gives header, blank, brand,
\* blank and the two footer lines.
C6_LineIffOwnField ==
    (FormatDone /\ Truthy(bin_data))
        => LET L == SplitLines(response)
           IN  /\ OneIff(L, BrandLabel, FieldSet("scheme"))
               /\ OneIff(L, TypeLabel, FieldSet("type"))
               /\ OneIff(L, BankLabel, SubFieldSet("bank", "name"))
               /\ OneIff(L, WebsiteLabel, SubFieldSet("bank", "url"))
               /\ OneIff(L, PhoneLabel, SubFieldSet("bank", "phone"))
               /\ OneIff(L, CountryLabel,
                         \E sub \in {"name", "emoji", "currency"} :
                             SubFieldSet("country", sub))
               /\ OneIff(L, LevelLabel, FieldSet("brand"))
               /\ (OnlyKey("scheme") /\ FieldSet("scheme"))
                     => L = <<HeaderLine(text), BlankLine,
                              <<BrandLabel>> \o upper(Get(bin_data, "scheme").s),
                              BlankLine, NoteLine, HelpLine>>

C6_Witness ==
    /\ FormatDone
    /\ SubFieldSet("bank", "url")
    /\ ~SubFieldSet("bank", "name")
    /\ Count(SplitLines(response), WebsiteLabel) = 1
    /\ Count(SplitLines(response), BankLabel) = 0

Rank(line) ==
    CASE line = <<>>               -> 0
      [] line[1] = BrandLabel      -> 3
      [] line[1] = TypeLabel       -> 4
      [] line[1] = BankLabel       -> 5
      [] line[1] = WebsiteLabel    -> 6
      [] line[1] = PhoneLabel      -> 7
      [] line[1] = CountryLabel    -> 8
      [] line[1] = LevelLabel      -> 9
      [] line[1] = PrepaidLabel    -> 10
      [] OTHER                     -> 0

\* the same dict with the items of every level in the opposite order
DeepReverse(v) ==
    Dict(Reverse([i \in 1..Len(v.d) |->
            <<v.d[i][1],
              IF v.d[i][2].t = "dict" THEN Dict(Reverse(v.d[i][2].d)) ELSE v.d[i][2]>>]))

\* the same dict with its first item moved to the end
Rotate(v) == IF v.d = <<>> THEN v ELSE Dict(Tail(v.d) \o <<Head(v.d)>>)

\* C7: the lines come in the order header, blank, brand, type, bank,
\* website, phone, country, level, prepaid, blank, footer 1, footer 2 for
\* every subset of fields, and a record with the same fields in another
\* key order gives the same text.
C7_FixedOrderWhateverTheKeyOrder ==
    (FormatDone /\ bin_data.t = "dict")
        => LET L == SplitLines(response)
           IN  /\ Truthy(bin_data)
                     => /\ HeaderAndFooter(L)
                        /\ L[2] = BlankLine
                        /\ L[Len(L) - 2] = BlankLine
                        /\ \A i \in 3..(Len(L) - 3) : Rank(L[i]) \in 3..10
                        /\ \A i \in 3..(Len(L) - 4) : Rank(L[i]) < Rank(L[i + 1])
               /\ format_bin_info(DeepReverse(bin_data), text) = response
               /\ format_bin_info(Rotate(bin_data), text) = response

C7_Witness ==
    /\ FormatDone
    /\ Len(bin_data.d) = 6
    /\ bin_data.d[1][1] = "prepaid"
    /\ Len(SplitLines(response)) = 13

\* C8: for a valid BIN sent as a message, a 404 and a transport failure
\* (other status, network error, timeout, unparseable body) both end in
\* the one reply "no data found".
C8_NotFoundAndFailureSameReply ==
    (kind = "message" /\ Finished /\ gets > 0
       /\ (IsNotFound(http) \/ IsTransportFailure(http)))
        => replies = <<MESSAGES_no_data>>

C8_Witness ==
    /\ kind = "message"
    /\ pc = "done"
    /\ IsTransportFailure(http)
    /\ http.status = 500
    /\ replies = <<MESSAGES_no_data>>

\* C9: a call of fetch_bin_info issues at most one GET and an update causes
\* at most one call of fetch_bin_info, whatever the GET ended in.
C9_NoRetry ==
    /\ fetches <= 1
    /\ gets <= fetches

C9_Witness ==
    /\ pc = "done"
    /\ IsTransportFailure(http)
    /\ gets = 1
    /\ fetches = 1

\* C10: handle_message sends exactly one reply on every path: the
\* invalid-format message when validation fails, the no-data message when
\* the lookup returned None, the formatted report otherwise; never two.
C10_ExactlyOneReply ==
    kind = "message"
        => /\ pc # "crashed"
           /\ Len(replies) <= 1
           /\ pc = "done"
                 => /\ Len(replies) = 1
                    /\ replies[1] = IF ~validate_bin(Stripped) THEN MESSAGES_invalid_bin
                                    ELSE IF ~IsFound(http) \/ http.json = None
                                    THEN MESSAGES_no_data
                                    ELSE format_bin_info(http.json, Stripped)

C10_Witness ==
    /\ kind = "message"
    /\ pc = "done"
    /\ http = Response(200, TRUE, Sample)
    /\ Len(replies) = 1
    /\ Len(SplitLines(replies[1])) = 10

====
